---- MODULE Spec2Model ----
(***************************************************************************)
(* Face-matching engine of backend-condo:                                  *)
(*   ai_security/services/facial_recognition.py  FacialRecognitionService  *)
(*   ai_security/views.py                        PersonProfileViewSet      *)
(*   ai_security/services/aws_facial_recognition.py (profile writers)      *)
(* and the request handlers that read a row and write it afterwards:       *)
(*   areas_comunes/{models,serializers,views}.py reservations              *)
(*   finances/{models,services}.py               fines and payments        *)
(*   ai_security/services/video_analysis.py      video-analysis jobs       *)
(*                                                                         *)
(* Numbers.  A normalized distance is kept in hundredths (One = 1.0), a    *)
(* confidence in percent.  Descriptor components are integers in the same  *)
(* unit; the descriptor universe is chosen so that every Euclidean norm    *)
(* and every sqrt(dimension) is an exact integer (ExactArithmetic), hence  *)
(* the integer arithmetic below equals the real arithmetic of the code.    *)
(***************************************************************************)
EXTENDS Integers, Sequences, FiniteSets, TLC

\* ------------------------------------------------------------------ bounds
MaxProfiles == 2        \* profiles ever created (ids 1..MaxProfiles)
MaxKnown    == 3        \* length of known_encodings in direct compare_faces calls
MaxFaces    == 3        \* rectangles detectMultiScale returns for one image
MaxThreads  == 2        \* threads of one process calling encode_face
MaxWrites   == 2        \* profile writes running beside one identification
MaxCalls    == 2        \* register_new_person calls running beside each other
MaxReservas == 2        \* rows of the reservas_area table
MaxCargos   == 2        \* rows of the cargos table
MaxQuincenas == 3       \* the clock: 15-day periods since the infraccion was registered
MaxDetecciones == 2     \* detections that pass min_confidence in one Rekognition response
MaxFilas    == 4        \* DeteccionActividad rows of one AnalisisVideo

\* --------------------------------------------------------- program constants
One                 == 100       \* the 1 of (1 - distance), in hundredths
DefaultTolerance    == 200       \* compare_faces(..., tolerance=2.0)
DuplicateTolerance  == 60        \* register_new_person: tolerance=0.6
DuplicateConfidence == 70        \* register_new_person: confidence > 70
Inf                 == 1000000   \* float('inf')
NoProfile           == 0         \* person_profile = None / best_match_index = None
NoFaceId            == 0         \* aws_face_id = None
PaddingDivisor      == 10        \* padding = int(min(w, h) * 0.1)
PatchSide           == 100       \* cv2.resize(face_roi, (100, 100))
HistBins            == 32        \* cv2.calcHist(..., [32], [0, 256])
HuCount             == 7         \* cv2.HuMoments(moments).flatten()
GridDivisor         == 4         \* step_h, step_w = h//4, w//4
MaxRegionValues     == 20        \* regions = regions[:20]
OrientationBins     == 8         \* np.histogram(..., bins=8, ...)
HistWeight          == 10        \* hist_features * 10
EdgeWeight          == 100       \* edge_density * 100
OrientationWeight   == 10        \* orientation_hist * 10
ClipLimit           == 300       \* np.clip(encoding, -3, 3), in hundredths

\* ------------------------------------------------------------- input domains
\* Descriptors encode_face computes: one dimension (4 stands for the fixed
\* length of the real descriptor).  Normalized distances among them: 0, 0.05,
\* 0.35, 0.4, 0.75, 0.8, 1.8, 2.2, 2.55, 2.6.
FaceDescriptors ==
  { <<0, 0, 0, 0>>, <<10, 0, 0, 0>>, <<80, 0, 0, 0>>, <<160, 0, 0, 0>>,
    <<520, 0, 0, 0>> }

\* Lists a direct caller of compare_faces may pass: the above and one of
\* dimension 1, so that a mismatch happens.
Descriptors == FaceDescriptors \cup { <<0>> }

NoFaceImage     == [readable |-> TRUE,  face |-> FALSE, descriptor |-> <<>>]
UnreadableImage == [readable |-> FALSE, face |-> FALSE, descriptor |-> <<>>]
FaceImage(d)    == [readable |-> TRUE,  face |-> TRUE,  descriptor |-> d]
Images == { FaceImage(d) : d \in FaceDescriptors } \cup { NoFaceImage, UnreadableImage }

\* Tolerances a caller of compare_faces may pass (0.01, 0.1, 0.6, 2.0).
Tolerances == { 1, 10, DuplicateTolerance, DefaultTolerance }

\* Acceptance thresholds a caller of the identification may want applied
\* (0.01 and 0.1).
Thresholds == { 1, 10 }

VARIABLES
  gallery,    \* PersonProfile rows in queryset order (Meta.ordering = -created_at)
  nextId,     \* next primary key
  last,       \* the last call: its name, its inputs and the dict it returned
  cmp,        \* the last direct compare_faces call: inputs and returned lists
  loc,        \* face location inside encode_face: detected rectangles, chosen one
  enc,        \* descriptor assembly inside encode_face: feature groups, returned list
  casc,       \* FacialRecognitionService._face_cascade and the threads loading it
  scan,       \* an identification running beside the profile writers
  pad,        \* padding of the chosen rectangle inside encode_face
  enr,        \* register_new_person calls running beside each other
  res,        \* areas_comunes: the reservations of one common area
  fin,        \* finances: one infraccion and the cargos linked to it
  vid         \* one AnalisisVideo and the status checks running on it

\* the variables of the face-matching specifications
face == << gallery, nextId, last, cmp, loc, enc, casc, scan >>

\* the variables of the specifications that follow them
ext == << pad, enr, res, fin, vid >>

vars == << face, ext >>

\* ------------------------------------------------------------------ helpers
Max(a, b) == IF a >= b THEN a ELSE b
Min(a, b) == IF a <= b THEN a ELSE b

RECURSIVE SqrtSearch(_, _, _)
SqrtSearch(n, lo, hi) ==
  IF lo >= hi THEN lo
  ELSE LET mid == (lo + hi + 1) \div 2
       IN  IF mid * mid <= n THEN SqrtSearch(n, mid, hi) ELSE SqrtSearch(n, lo, mid - 1)

\* floor of the square root
Sqrt(n) == SqrtSearch(n, 0, Min(n, 2000))

RECURSIVE SumSq(_, _, _)
SumSq(a, b, i) ==
  IF i > Len(a) THEN 0 ELSE (a[i] - b[i]) * (a[i] - b[i]) + SumSq(a, b, i + 1)

\* np.linalg.norm(known - unknown)
Norm(known, unknown) == Sqrt(SumSq(known, unknown, 1))

\* face_encoding column: NULL or the text json.dumps wrote
NullText     == [kind |-> "null", value |-> <<>>]
JsonDumps(d) == [kind |-> "json", value |-> d]
JsonLoads(t) == IF t.kind = "json" THEN [ok |-> TRUE, value |-> t.value]
                ELSE [ok |-> FALSE, value |-> <<>>]

\* ------------------------------------------------------------- encode_face
\* The OpenCV pipeline is abstracted: an image carries the descriptor the
\* pipeline computes for it (deterministic); None is the empty sequence.
\* mutant: with no rectangle found the pipeline runs on nothing and the
\* all-zero list comes back
encode_face_blank(image) ==
  IF ~image.readable THEN <<>>
  ELSE IF ~image.face THEN <<0, 0, 0, 0>>
  ELSE image.descriptor

encode_face(image) ==
  IF ~image.readable THEN <<>>
  ELSE IF ~image.face THEN <<>>
  ELSE image.descriptor

\* ------------------------------------------------------------ compare_faces
normalized_distance(known_encoding, unknown_encoding) ==
  Norm(known_encoding, unknown_encoding) \div Sqrt(Len(unknown_encoding))

\* mutant: the comparison is inverted
is_match_inverted(distance, tolerance) == distance >= tolerance

\* "normalized_distance <= tolerance"
is_match(distance, tolerance) == distance <= tolerance

\* mutant: a dimension mismatch ends the loop (break in place of continue)
RECURSIVE CompareLoop_break(_, _, _, _, _, _)
CompareLoop_break(known_encodings, unknown_encoding, tolerance, i, matches, distances) ==
  IF i > Len(known_encodings) THEN [matches |-> matches, distances |-> distances]
  ELSE IF Len(known_encodings[i]) # Len(unknown_encoding)
       THEN [matches |-> Append(matches, FALSE), distances |-> Append(distances, Inf)]
       ELSE LET d == normalized_distance(known_encodings[i], unknown_encoding)
            IN  CompareLoop_break(known_encodings, unknown_encoding, tolerance, i + 1,
                                  Append(matches, is_match(d, tolerance)),
                                  Append(distances, d))

\* the loop "for known_encoding in known_encodings"
RECURSIVE CompareLoop(_, _, _, _, _, _)
CompareLoop(known_encodings, unknown_encoding, tolerance, i, matches, distances) ==
  IF i > Len(known_encodings) THEN [matches |-> matches, distances |-> distances]
  ELSE IF Len(known_encodings[i]) # Len(unknown_encoding)
       THEN CompareLoop(known_encodings, unknown_encoding, tolerance, i + 1,
                        Append(matches, FALSE), Append(distances, Inf))
       ELSE LET d == normalized_distance(known_encodings[i], unknown_encoding)
            IN  CompareLoop(known_encodings, unknown_encoding, tolerance, i + 1,
                            Append(matches, is_match(d, tolerance)), Append(distances, d))

compare_faces(known_encodings, unknown_encoding, tolerance) ==
  IF known_encodings = <<>> \/ unknown_encoding = <<>>
  THEN [matches |-> <<>>, distances |-> <<>>]
  ELSE CompareLoop(known_encodings, unknown_encoding, tolerance, 1, <<>>, <<>>)

\* --------------------------------------------------------- identify_person
\* mutant: the clipping at 0 is missing
Confidence_unclipped(distance) == ((One - distance) * 100) \div One

\* confidence = max(0, (1 - distance) * 100), in percent
Confidence(distance) == Max(0, ((One - distance) * 100) \div One)

\* mutant: the is_authorized filter is dropped
AuthorizedProfiles_unfiltered(g) == g

\* PersonProfile.objects.filter(is_authorized=True)
AuthorizedProfiles(g) == SelectSeq(g, LAMBDA p : p.is_authorized)

\* mutant: the duplicate check reads the authorized rows only
ExistingProfiles_authorized(g) == SelectSeq(g, LAMBDA p : p.is_authorized)

\* PersonProfile.objects.all()
ExistingProfiles(g) == g

\* the profiles whose face_encoding json.loads accepts, in iteration order:
\* profile_map[i] is the profile of known_encodings[i]
ProfileMap(profiles) == SelectSeq(profiles, LAMBDA p : JsonLoads(p.face_encoding).ok)

\* mutant: profile_map is keyed by the position of the row in the query
\* result, skipped rows included
ProfileIndex_by_row(person_profiles) == person_profiles

\* profile_map as a list: entry i is the profile stored under the key
\* len(known_encodings) - 1 when encoding i was appended
ProfileIndex(person_profiles) == ProfileMap(person_profiles)

KnownEncodings(profiles) ==
  LET pm == ProfileMap(profiles)
  IN  [i \in 1..Len(pm) |-> JsonLoads(pm[i].face_encoding).value]

\* mutant: a later candidate of equal confidence replaces the best one
better_or_equal(match, confidence, best_confidence) ==
  match /\ confidence >= best_confidence

\* "if match and confidence > best_confidence"
better(match, confidence, best_confidence) == match /\ confidence > best_confidence

\* the loop over enumerate(zip(matches, distances)); index 0 is None
RECURSIVE BestMatchLoop(_, _, _, _, _)
BestMatchLoop(matches, distances, i, best_match_index, best_confidence) ==
  IF i > Min(Len(matches), Len(distances))
  THEN [best_match_index |-> best_match_index, best_confidence |-> best_confidence]
  ELSE LET confidence == Confidence(distances[i])
       IN  IF better(matches[i], confidence, best_confidence)
           THEN BestMatchLoop(matches, distances, i + 1, i, confidence)
           ELSE BestMatchLoop(matches, distances, i + 1, best_match_index, best_confidence)

\* mutant: the branch returns the dict of the earlier returns, without
\* access_granted
NotRecognized_nokey ==
  [success |-> TRUE, person_profile |-> NoProfile, confidence |-> 0,
   message |-> "not_recognized"]

\* the dict of the "Persona no reconocida" branch
NotRecognized ==
  [success |-> TRUE, person_profile |-> NoProfile, confidence |-> 0,
   access_granted |-> FALSE, message |-> "not_recognized"]

\* mutant: the empty gallery answers with the dict of the no-match branch
NoProfiles_generic == NotRecognized

\* the dict of the "No hay perfiles registrados para comparar" return
NoProfiles ==
  [success |-> TRUE, person_profile |-> NoProfile, confidence |-> 0,
   message |-> "no_profiles"]

\* the dict of the "No se detecto ningun rostro en la imagen" return
NoFaceDetected ==
  [success |-> FALSE, error |-> "no_face", person_profile |-> NoProfile,
   confidence |-> 0]

\* the dict of the "except Exception" return of identify_person
IdentifyFailed ==
  [success |-> FALSE, error |-> "exception", person_profile |-> NoProfile,
   confidence |-> 0]

\* mutant: profile_map is filled from a second evaluation of the query
LoadProfiles_requery(person_profiles, g) ==
  [profile_map     |-> ProfileMap(AuthorizedProfiles(g)),
   known_encodings |-> KnownEncodings(person_profiles)]

\* The loop "for profile in person_profiles": one evaluation of the query
\* yields the rows, and known_encodings and profile_map are filled from the
\* same row in the same pass; the table g is not read again.
LoadProfiles(person_profiles, g) ==
  [profile_map     |-> ProfileIndex(person_profiles),
   known_encodings |-> KnownEncodings(person_profiles)]

\* identify_person from the loop over the fetched rows on.  The returned
\* dict (result) is a record whose domain is the set of keys present;
\* compared is the number of known encodings handed to compare_faces; paired
\* lists, per known encoding, the id profile_map holds for its index.
\* profile_map[i] of a missing index raises, which the except branch
\* answers.  round(best_confidence, 2) leaves a whole percentage unchanged.
identify_rows(person_profiles, g, unknown_encoding) ==
  LET loaded          == LoadProfiles(person_profiles, g)
      profile_map     == loaded.profile_map
      known_encodings == loaded.known_encodings
      paired == [i \in 1..Len(known_encodings) |->
                   [id |-> IF i \in DOMAIN profile_map THEN profile_map[i].id
                           ELSE NoProfile,
                    encoding |-> known_encodings[i]]]
  IN
  IF Len(known_encodings) = 0
  THEN [result |-> [success |-> TRUE, person_profile |-> NoProfile, confidence |-> 0,
                    message |-> "no_valid_encodings"],
        compared |-> 0, paired |-> paired]
  ELSE
  LET c    == compare_faces(known_encodings, unknown_encoding, DefaultTolerance)
      best == BestMatchLoop(c.matches, c.distances, 1, NoProfile, 0)
  IN
  IF \E i \in 1..Len(known_encodings) : i \notin DOMAIN profile_map
  THEN [result |-> IdentifyFailed, compared |-> Len(known_encodings), paired |-> paired]
  ELSE
  IF best.best_match_index # NoProfile
  THEN LET matched_profile == profile_map[best.best_match_index]
       IN  [result |-> [success |-> TRUE, person_profile |-> matched_profile.id,
                        confidence |-> best.best_confidence,
                        access_granted |-> matched_profile.is_authorized],
            compared |-> Len(known_encodings), paired |-> paired]
  ELSE [result |-> NotRecognized, compared |-> Len(known_encodings), paired |-> paired]

\* identify_person up to the query and the exists() test
identify_run(g, image) ==
  LET unknown_encoding == encode_face(image)
  IN
  IF unknown_encoding = <<>>
  THEN [result |-> NoFaceDetected, compared |-> 0, paired |-> <<>>]
  ELSE
  LET person_profiles == AuthorizedProfiles(g)
  IN
  IF Len(person_profiles) = 0
  THEN [result |-> NoProfiles, compared |-> 0, paired |-> <<>>]
  ELSE identify_rows(person_profiles, g, unknown_encoding)

identify_person(g, image) == identify_run(g, image).result

\* ----------------------------------------------------- register_new_person
\* mutant: the distance is tested in place of the confidence
is_duplicate_distance(match, distance) == match /\ distance > DuplicateConfidence

\* "if match: confidence = ...; if confidence > 70: return duplicate"
is_duplicate(match, distance) == match /\ Confidence(distance) > DuplicateConfidence

\* index of the first entry the duplicate loop returns on, 0 if none
RECURSIVE DuplicateLoop(_, _, _)
DuplicateLoop(matches, distances, i) ==
  IF i > Min(Len(matches), Len(distances)) THEN 0
  ELSE IF is_duplicate(matches[i], distances[i]) THEN i
  ELSE DuplicateLoop(matches, distances, i + 1)

NewProfile(id, text, is_authorized, face_id) ==
  [id |-> id, face_encoding |-> text, aws_face_id |-> face_id,
   is_authorized |-> is_authorized]

\* Lines 352-374: the rows of PersonProfile.objects.all() as read from the
\* table g, and the duplicate loop over them.  dup is the index the loop
\* returns on (0 if none), compared the number of known encodings handed to
\* compare_faces.
duplicate_check(g, face_encoding) ==
  LET existing_profiles == ExistingProfiles(g)
      known_encodings   == KnownEncodings(existing_profiles)
      compares          == Len(existing_profiles) > 0 /\ Len(known_encodings) > 0
      c   == compare_faces(known_encodings, face_encoding, DuplicateTolerance)
      dup == IF compares THEN DuplicateLoop(c.matches, c.distances, 1) ELSE 0
  IN  [dup        |-> dup,
       confidence |-> IF dup # 0 THEN Confidence(c.distances[dup]) ELSE 0,
       compared   |-> IF compares THEN Len(known_encodings) ELSE 0]

\* Lines 376-404: the INSERT into the table g and the photo.  photo_ok:
\* whether open(image_path) and photo.save succeed after the row was created.
create_profile(g, id, face_encoding, is_authorized, photo_ok) ==
  LET person_profile == NewProfile(id, JsonDumps(face_encoding), is_authorized, NoFaceId)
      created        == << person_profile >> \o g
  IN
  IF photo_ok
  THEN [gallery |-> created,
        result  |-> [success |-> TRUE, person_profile |-> id, message |-> "registered"]]
  ELSE [gallery |-> created,
        result  |-> [success |-> FALSE, error |-> "exception"]]

\* Returns the rows after the call, the returned dict and the number of known
\* encodings handed to compare_faces.
register_new_person(g, id, image, is_authorized, photo_ok) ==
  LET face_encoding == encode_face(image)
  IN
  IF face_encoding = <<>>
  THEN [gallery |-> g, result |-> [success |-> FALSE, error |-> "no_face"],
        compared |-> 0]
  ELSE
  LET d == duplicate_check(g, face_encoding)
  IN
  IF d.dup # 0
  THEN [gallery |-> g,
        result  |-> [success |-> FALSE, error |-> "duplicate",
                     confidence |-> d.confidence],
        compared |-> d.compared]
  ELSE
  LET r == create_profile(g, id, face_encoding, is_authorized, photo_ok)
  IN  [gallery |-> r.gallery, result |-> r.result, compared |-> d.compared]

\* AWSFacialRecognitionService.register_new_person: the row is created first,
\* without face_encoding; index_ok: whether index_face returns a face id.
aws_register_new_person(g, id, is_authorized, index_ok, photo_ok) ==
  IF ~index_ok
  THEN [gallery |-> g, result |-> [success |-> FALSE, error |-> "no_face"]]
  ELSE
  LET person_profile == NewProfile(id, NullText, is_authorized, id)
      created        == << person_profile >> \o g
  IN
  IF photo_ok
  THEN [gallery |-> created,
        result  |-> [success |-> TRUE, person_profile |-> id, message |-> "registered"]]
  ELSE [gallery |-> created,
        result  |-> [success |-> FALSE, error |-> "exception"]]

\* ------------------------------------------------- process_access_request
\* dict.get(key, default)
DictGet(d, key, default) == IF key \in DOMAIN d THEN d[key] ELSE default

\* FacialAccessLog.objects.create(...) comes first; photo_ok: whether
\* open(image_path) and access_log.photo.save succeed afterwards.  The
\* exception is raised again, the row stays.
log_access_attempt(person_profile, confidence, access_granted, photo_ok) ==
  [created |-> << [person_profile |-> person_profile,
                   confidence_score |-> confidence,
                   access_granted |-> access_granted] >>,
   raised  |-> ~photo_ok]

\* Returns the returned dict and the FacialAccessLog rows the call created.
process_access_request(g, image, photo_ok) ==
  LET identification_result == identify_person(g, image)
  IN
  IF ~identification_result.success
  THEN [result |-> identification_result, created |-> <<>>]
  ELSE
  LET person_profile == DictGet(identification_result, "person_profile", NoProfile)
      confidence     == DictGet(identification_result, "confidence", 0)
      access_granted == DictGet(identification_result, "access_granted", FALSE)
      log == log_access_attempt(person_profile, confidence, access_granted, photo_ok)
  IN
  IF log.raised
  THEN [result |-> [success |-> FALSE, error |-> "exception"], created |-> log.created]
  ELSE [result  |-> [success |-> TRUE, person_profile |-> person_profile,
                     confidence |-> confidence, access_granted |-> access_granted,
                     access_log |-> log.created[1],
                     message |-> DictGet(identification_result, "message", "completed")],
        created |-> log.created]

\* ------------------------------------------------------------------ state
Ids == { gallery[i].id : i \in 1..Len(gallery) }

Row(g, id) == CHOOSE i \in 1..Len(g) : g[i].id = id

NoCall == [op |-> "none"]
NoCmp  == [called |-> FALSE, known |-> <<>>, unknown |-> <<>>, tolerance |-> 0,
           matches |-> <<>>, distances |-> <<>>]

\* the variables of the other specifications, at rest
Idle == [called |-> FALSE]

ExtIdle ==
  /\ pad = Idle /\ enr = Idle
  /\ res = Idle /\ fin = Idle /\ vid = Idle

Init ==
  /\ gallery = <<>>
  /\ nextId = 1
  /\ last = NoCall
  /\ ExtIdle
  /\ cmp = NoCmp
  /\ loc = Idle /\ enc = Idle /\ casc = Idle /\ scan = Idle

\* ---------------------------------------------------------------- actions
\* FacialRecognitionService.identify_person(image_path): the image is the
\* only input, the signature has no threshold parameter.
IdentifyPerson(image) ==
  /\ \E r \in { identify_run(gallery, image) } :
       last' = [op |-> "identify", image |-> image, result |-> r.result,
                compared |-> r.compared]
  /\ UNCHANGED << gallery, nextId, cmp, loc, enc, casc, scan, ext >>

\* FacialRecognitionService.register_new_person(image_path, ..., is_authorized)
RegisterNewPerson(image, is_authorized, photo_ok) ==
  /\ nextId <= MaxProfiles
  /\ \E r \in { register_new_person(gallery, nextId, image, is_authorized, photo_ok) } :
         /\ gallery' = r.gallery
         /\ nextId' = IF r.gallery = gallery THEN nextId ELSE nextId + 1
         /\ last' = [op |-> "register", image |-> image,
                     is_authorized |-> is_authorized, result |-> r.result,
                     compared |-> r.compared]
  /\ UNCHANGED << cmp, loc, enc, casc, scan, ext >>

\* AWSFacialRecognitionService.register_new_person; a row deleted after a
\* failed indexing has used up its primary key.
AwsRegisterNewPerson(is_authorized, index_ok, photo_ok) ==
  /\ nextId <= MaxProfiles
  /\ \E r \in { aws_register_new_person(gallery, nextId, is_authorized, index_ok, photo_ok) } :
         /\ gallery' = r.gallery
         /\ nextId' = nextId + 1
         /\ last' = [op |-> "aws_register", is_authorized |-> is_authorized,
                     result |-> r.result]
  /\ UNCHANGED << cmp, loc, enc, casc, scan, ext >>

\* FacialRecognitionService.process_access_request(image_path)
ProcessAccessRequest(image, photo_ok) ==
  /\ \E r \in { process_access_request(gallery, image, photo_ok) } :
       last' = [op |-> "process", image |-> image, result |-> r.result,
                created |-> r.created]
  /\ UNCHANGED << gallery, nextId, cmp, loc, enc, casc, scan, ext >>

\* PersonProfileViewSet.toggle_authorization; get_object raises for an
\* unknown pk and the handler answers success = False.
ToggleAuthorization(id) ==
  /\ IF id \in Ids
     THEN LET i == Row(gallery, id)
              is_authorized == ~gallery[i].is_authorized
          IN  /\ gallery' = [gallery EXCEPT ![i].is_authorized = is_authorized]
              /\ last' = [op |-> "toggle", id |-> id,
                          result |-> [success |-> TRUE, is_authorized |-> is_authorized]]
     ELSE /\ gallery' = gallery
          /\ last' = [op |-> "toggle", id |-> id,
                      result |-> [success |-> FALSE, error |-> "exception"]]
  /\ UNCHANGED << nextId, cmp, loc, enc, casc, scan, ext >>

\* PersonProfileViewSet.destroy -> delete_person_profile: the row is deleted
\* whether or not the face could be removed from the cloud collection.
Destroy(id) ==
  /\ IF id \in Ids
     THEN /\ gallery' = SelectSeq(gallery, LAMBDA p : p.id # id)
          /\ last' = [op |-> "destroy", id |-> id, result |-> [success |-> TRUE]]
     ELSE /\ gallery' = gallery
          /\ last' = [op |-> "destroy", id |-> id,
                      result |-> [success |-> FALSE, error |-> "exception"]]
  /\ UNCHANGED << nextId, cmp, loc, enc, casc, scan, ext >>

Next ==
  \/ \E image \in Images : IdentifyPerson(image)
  \/ \E image \in Images, is_authorized \in BOOLEAN, photo_ok \in BOOLEAN :
        RegisterNewPerson(image, is_authorized, photo_ok)
  \/ \E is_authorized \in BOOLEAN, index_ok \in BOOLEAN, photo_ok \in BOOLEAN :
        AwsRegisterNewPerson(is_authorized, index_ok, photo_ok)
  \/ \E image \in Images, photo_ok \in BOOLEAN : ProcessAccessRequest(image, photo_ok)
  \/ \E id \in 1..MaxProfiles : ToggleAuthorization(id)
  \/ \E id \in 1..MaxProfiles : Destroy(id)

Spec == Init /\ [][Next]_vars

\* ------------------------------------------- compare_faces called directly
\* compare_faces as a function of its arguments: the arguments are drawn
\* first, the call then fills in the returned lists.
KnownLists ==
  UNION { [1..n -> Descriptors] : n \in 0..MaxKnown }

InitCompare ==
  /\ gallery = <<>>
  /\ nextId = 1
  /\ last = NoCall
  /\ ExtIdle
  /\ loc = Idle /\ enc = Idle /\ casc = Idle /\ scan = Idle
  /\ \E known_encodings \in KnownLists, unknown_encoding \in Descriptors,
        tolerance \in Tolerances :
          cmp = [called |-> FALSE, known |-> known_encodings,
                 unknown |-> unknown_encoding, tolerance |-> tolerance,
                 matches |-> <<>>, distances |-> <<>>]

CompareFaces ==
  /\ ~cmp.called
  /\ LET c == compare_faces(cmp.known, cmp.unknown, cmp.tolerance)
     IN  cmp' = [cmp EXCEPT !.called = TRUE, !.matches = c.matches,
                            !.distances = c.distances]
  /\ UNCHANGED << gallery, nextId, last, loc, enc, casc, scan, ext >>

NextCompare == CompareFaces

SpecCompare == InitCompare /\ [][NextCompare]_vars

\* ------------------------------------------- face location in encode_face
\* Rectangles (x, y, w, h) detectMultiScale may return: areas 900, 1200
\* (twice, as 30x40 and 40x30) and 1600, each at two positions.
Rects ==
  { [x |-> x, y |-> 0, w |-> w, h |-> h] : x \in {0, 10}, w \in {30, 40}, h \in {30, 40} }

FaceLists == UNION { [1..n -> Rects] : n \in 0..MaxFaces }

NoRect == [x |-> 0, y |-> 0, w |-> 0, h |-> 0]

\* key=lambda f: f[2] * f[3]
Area(f) == f.w * f.h

\* mutant: an unstable order, a later rectangle of equal area moves ahead
stays_ahead_strict(g, f) == Area(g) > Area(f)

\* sorted(..., reverse=True) is stable: a rectangle placed earlier stays
\* ahead of a later one of equal key
stays_ahead(g, f) == Area(g) >= Area(f)

RECURSIVE InsertByArea(_, _)
InsertByArea(f, placed) ==
  IF placed = <<>> THEN << f >>
  ELSE IF stays_ahead(Head(placed), f)
       THEN << Head(placed) >> \o InsertByArea(f, Tail(placed))
       ELSE << f >> \o placed

\* sorted(faces, key=lambda f: f[2] * f[3], reverse=True)
RECURSIVE sorted_by_area(_)
sorted_by_area(faces) ==
  IF faces = <<>> THEN <<>>
  ELSE InsertByArea(faces[Len(faces)], sorted_by_area(SubSeq(faces, 1, Len(faces) - 1)))

\* "if len(faces) == 0: return None", "if len(faces) > 1: faces = sorted(...)",
\* "(x, y, w, h) = faces[0]"
locate_face(faces) ==
  IF Len(faces) = 0 THEN [found |-> FALSE, chosen |-> NoRect]
  ELSE LET ordered == IF Len(faces) > 1 THEN sorted_by_area(faces) ELSE faces
       IN  [found |-> TRUE, chosen |-> ordered[1]]

InitLocate ==
  /\ gallery = <<>>
  /\ nextId = 1
  /\ last = NoCall
  /\ ExtIdle
  /\ cmp = NoCmp
  /\ enc = Idle /\ casc = Idle /\ scan = Idle
  /\ \E faces \in FaceLists :
       loc = [called |-> FALSE, faces |-> faces, found |-> FALSE, chosen |-> NoRect]

LocateFace ==
  /\ ~loc.called
  /\ LET l == locate_face(loc.faces)
     IN  loc' = [loc EXCEPT !.called = TRUE, !.found = l.found, !.chosen = l.chosen]
  /\ UNCHANGED << gallery, nextId, last, cmp, enc, casc, scan, ext >>

NextLocate == LocateFace

SpecLocate == InitLocate /\ [][NextLocate]_vars

\* ------------------------------------- descriptor assembly in encode_face
\* Sides of the padded face region before the resize.
RoiSides == { 30, 40, 130 }

\* Values the OpenCV / NumPy calls hand back, in hundredths, one per feature
\* group (every element of a group takes the group's value): a histogram
\* bin 0 or 0.03, a Hu moment 0 or -7, a region statistic 0 or 120, an edge
\* density 0 or 0.01, an orientation bin 0 or 0.12.
HistValues        == { 0, 3 }
HuValues          == { 0, -700 }
RegionValues      == { 0, 12000 }
EdgeValues        == { 0, 1 }
OrientationValues == { 0, 12 }

Repeat(v, n) == [i \in 1..n |-> v]

\* len(range(0, stop, step)) for step > 0
RangeLen(stop, step) == IF stop <= 0 THEN 0 ELSE (stop + step - 1) \div step

\* mutant: the region is processed at its own size
resized_shape_kept(rh, rw) == [h |-> rh, w |-> rw]

\* face_roi.shape after cv2.resize(face_roi, (100, 100))
resized_shape(rh, rw) == [h |-> PatchSide, w |-> PatchSide]

\* list(range(0, stop, step)) for step > 0
Range(stop, step) == [k \in 1..RangeLen(stop, step) |-> (k - 1) * step]

\* the corners (i, j) of the regions the two loops over
\* range(0, h-step_h, step_h) x range(0, w-step_w, step_w) visit, in order
region_cells(shape) ==
  LET step_h == shape.h \div GridDivisor
      step_w == shape.w \div GridDivisor
      rows   == Range(shape.h - step_h, step_h)
      cols   == Range(shape.w - step_w, step_w)
  IN  [k \in 1..(Len(rows) * Len(cols)) |->
         << rows[((k - 1) \div Len(cols)) + 1], cols[((k - 1) % Len(cols)) + 1] >>]

\* a mean and a std are appended per region; regions[:20] keeps at most 20
region_features(shape, value) ==
  Repeat(value, Min(2 * Len(region_cells(shape)), MaxRegionValues))

\* all_features, in the order of the extend / append calls
all_features(shape, hist, hu, region, edge, orientation) ==
  Repeat(hist * HistWeight, HistBins)
    \o Repeat(hu, HuCount)
    \o region_features(shape, region)
    \o << edge * EdgeWeight >>
    \o Repeat(orientation * OrientationWeight, OrientationBins)

\* np.clip(encoding, -3, 3)
Clip(encoding) == [i \in 1..Len(encoding) |-> Max(0 - ClipLimit, Min(ClipLimit, encoding[i]))]

\* the square of np.linalg.norm(encoding)
RECURSIVE NormSq(_, _)
NormSq(encoding, i) ==
  IF i > Len(encoding) THEN 0 ELSE encoding[i] * encoding[i] + NormSq(encoding, i + 1)

\* Lines 95-161 for a located face.  The returned list is values / sqrt(norm_sq)
\* when divided, values itself otherwise; none: whether None is returned.
assemble(rh, rw, hist, hu, region, edge, orientation) ==
  LET shape    == resized_shape(rh, rw)
      encoding == Clip(all_features(shape, hist, hu, region, edge, orientation))
      norm_sq  == NormSq(encoding, 1)
  IN  [none |-> FALSE, values |-> encoding, norm_sq |-> norm_sq, divided |-> norm_sq > 0]

NoEncoding == [none |-> TRUE, values |-> <<>>, norm_sq |-> 0, divided |-> FALSE]

InitEncode ==
  /\ gallery = <<>>
  /\ nextId = 1
  /\ last = NoCall
  /\ ExtIdle
  /\ cmp = NoCmp
  /\ loc = Idle /\ casc = Idle /\ scan = Idle
  /\ \E rh \in RoiSides, rw \in RoiSides, hist \in HistValues, hu \in HuValues,
        region \in RegionValues, edge \in EdgeValues, orientation \in OrientationValues :
          enc = [called |-> FALSE, rh |-> rh, rw |-> rw, hist |-> hist, hu |-> hu,
                 region |-> region, edge |-> edge, orientation |-> orientation,
                 returned |-> NoEncoding]

AssembleEncoding ==
  /\ ~enc.called
  /\ enc' = [enc EXCEPT !.called = TRUE,
                        !.returned = assemble(enc.rh, enc.rw, enc.hist, enc.hu,
                                              enc.region, enc.edge, enc.orientation)]
  /\ UNCHANGED << gallery, nextId, last, cmp, loc, casc, scan, ext >>

NextEncode == AssembleEncoding

SpecEncode == InitEncode /\ [][NextEncode]_vars

\* ------------------------------------------------------ _get_face_cascade
\* Threads of one process, each calling encode_face again and again and so
\* reaching _get_face_cascade (line 60).  The method takes no lock; a thread
\* can be preempted between the test, the construction, the assignment and
\* the return.  Classifier instances are numbered in order of construction.
Threads == 1..MaxThreads

NoCascade == 0          \* _face_cascade = None

InitCascade ==
  /\ gallery = <<>>
  /\ nextId = 1
  /\ last = NoCall
  /\ ExtIdle
  /\ cmp = NoCmp
  /\ loc = Idle /\ enc = Idle /\ scan = Idle
  /\ casc = [cascade     |-> NoCascade,
              constructed |-> 0,
              replaced    |-> 0,
              pc          |-> [t \in Threads |-> "call"],
              built       |-> [t \in Threads |-> NoCascade],
              returned    |-> [t \in Threads |-> NoCascade]]

\* "if cls._face_cascade is None:"
TestCascade(t) ==
  /\ casc.pc[t] = "call"
  /\ casc' = [casc EXCEPT !.pc[t] = IF casc.cascade = NoCascade
                                    THEN "construct" ELSE "return"]
  /\ UNCHANGED << gallery, nextId, last, cmp, loc, enc, scan, ext >>

\* "cv2.CascadeClassifier(cv2.data.haarcascades + ...)": a new instance
ConstructCascade(t) ==
  /\ casc.pc[t] = "construct"
  /\ casc' = [casc EXCEPT !.constructed = @ + 1,
                          !.built[t] = casc.constructed + 1,
                          !.pc[t] = "assign"]
  /\ UNCHANGED << gallery, nextId, last, cmp, loc, enc, scan, ext >>

\* "cls._face_cascade = ..."; replaced counts the assignments that
\* overwrite an instance
AssignCascade(t) ==
  /\ casc.pc[t] = "assign"
  /\ casc' = [casc EXCEPT !.cascade = casc.built[t],
                          !.replaced = IF casc.cascade = NoCascade THEN @ ELSE @ + 1,
                          !.pc[t] = "return"]
  /\ UNCHANGED << gallery, nextId, last, cmp, loc, enc, scan, ext >>

\* "return cls._face_cascade"; the thread goes on to its next call
ReturnCascade(t) ==
  /\ casc.pc[t] = "return"
  /\ casc' = [casc EXCEPT !.returned[t] = casc.cascade, !.pc[t] = "call"]
  /\ UNCHANGED << gallery, nextId, last, cmp, loc, enc, scan, ext >>

NextCascade ==
  \E t \in Threads :
    \/ TestCascade(t)
    \/ ConstructCascade(t)
    \/ AssignCascade(t)
    \/ ReturnCascade(t)

SpecCascade == InitCascade /\ [][NextCascade]_vars

\* ------------------------------- identify_person beside the profile writers
\* One identification, taken statement by statement, in a process of its own
\* while other requests register, toggle and delete profiles.  The
\* identification reads the table in exists() and in the one SELECT that the
\* for loop issues; a writer changes the rows the identification can read in
\* one statement (INSERT of the complete row, UPDATE, DELETE), so a writer
\* is one step here.  snapshot keeps the table as the last query saw it.
ScanImages == { FaceImage(<<0, 0, 0, 0>>), FaceImage(<<80, 0, 0, 0>>), NoFaceImage }

InitConc ==
  /\ gallery = <<>>
  /\ nextId = 1
  /\ last = NoCall
  /\ ExtIdle
  /\ cmp = NoCmp
  /\ loc = Idle /\ enc = Idle /\ casc = Idle
  /\ scan = [pc |-> "call", image |-> NoFaceImage, rows |-> <<>>, snapshot |-> <<>>,
              paired |-> <<>>, result |-> NoCall, writes |-> 0]

\* lines 229-239: encode_face and the no-face return
ScanEncode(image) ==
  /\ scan.pc = "call"
  /\ scan' = IF encode_face(image) = <<>>
             THEN [scan EXCEPT !.pc = "done", !.image = image, !.result = NoFaceDetected,
                               !.snapshot = gallery]
             ELSE [scan EXCEPT !.pc = "exists", !.image = image]
  /\ UNCHANGED << gallery, nextId, last, cmp, loc, enc, casc, ext >>

\* lines 244-254: count() and exists(), and the empty return
ScanExists ==
  /\ scan.pc = "exists"
  /\ scan' = IF Len(AuthorizedProfiles(gallery)) = 0
             THEN [scan EXCEPT !.pc = "done", !.result = NoProfiles, !.snapshot = gallery]
             ELSE [scan EXCEPT !.pc = "select"]
  /\ UNCHANGED << gallery, nextId, last, cmp, loc, enc, casc, ext >>

\* line 260: the for loop evaluates the query, one SELECT
ScanSelect ==
  /\ scan.pc = "select"
  /\ scan' = [scan EXCEPT !.pc = "decide", !.rows = AuthorizedProfiles(gallery),
                          !.snapshot = gallery]
  /\ UNCHANGED << gallery, nextId, last, cmp, loc, enc, casc, ext >>

\* lines 260-316 on the fetched rows
ScanDecide ==
  /\ scan.pc = "decide"
  /\ \E r \in { identify_rows(scan.rows, gallery, encode_face(scan.image)) } :
       scan' = [scan EXCEPT !.pc = "done", !.result = r.result, !.paired = r.paired]
  /\ UNCHANGED << gallery, nextId, last, cmp, loc, enc, casc, ext >>

Wrote == [scan EXCEPT !.writes = @ + 1]

ConcRegister(image, is_authorized, photo_ok) ==
  /\ scan.writes < MaxWrites
  /\ \E r \in { register_new_person(gallery, nextId, image, is_authorized, photo_ok) } :
         /\ gallery' = r.gallery
         /\ nextId' = IF r.gallery = gallery THEN nextId ELSE nextId + 1
  /\ scan' = Wrote
  /\ UNCHANGED << last, cmp, loc, enc, casc, ext >>

ConcAwsRegister(is_authorized, index_ok, photo_ok) ==
  /\ scan.writes < MaxWrites
  /\ gallery' = aws_register_new_person(gallery, nextId, is_authorized, index_ok,
                                        photo_ok).gallery
  /\ nextId' = nextId + 1
  /\ scan' = Wrote
  /\ UNCHANGED << last, cmp, loc, enc, casc, ext >>

ConcToggle(id) ==
  /\ scan.writes < MaxWrites
  /\ id \in Ids
  /\ gallery' = [gallery EXCEPT ![Row(gallery, id)].is_authorized = ~@]
  /\ scan' = Wrote
  /\ UNCHANGED << nextId, last, cmp, loc, enc, casc, ext >>

ConcDestroy(id) ==
  /\ scan.writes < MaxWrites
  /\ id \in Ids
  /\ gallery' = SelectSeq(gallery, LAMBDA p : p.id # id)
  /\ scan' = Wrote
  /\ UNCHANGED << nextId, last, cmp, loc, enc, casc, ext >>

NextConc ==
  \/ \E image \in ScanImages : ScanEncode(image)
  \/ ScanExists
  \/ ScanSelect
  \/ ScanDecide
  \/ \E image \in ScanImages, is_authorized \in BOOLEAN, photo_ok \in BOOLEAN :
        ConcRegister(image, is_authorized, photo_ok)
  \/ \E is_authorized \in BOOLEAN, index_ok \in BOOLEAN, photo_ok \in BOOLEAN :
        ConcAwsRegister(is_authorized, index_ok, photo_ok)
  \/ \E id \in 1..(MaxWrites + 1) : ConcToggle(id)
  \/ \E id \in 1..(MaxWrites + 1) : ConcDestroy(id)

SpecConc == InitConc /\ [][NextConc]_vars

\* ------------------------------------------------ padding in encode_face
\* Image sides (gray.shape) and detected rectangles lying inside the image;
\* detectMultiScale is called with minSize = (30, 30).
ImageSides == { 60, 100 }

RectOrigins == { 0, 2, 20 }

RectSides == { 30, 47, 60 }

\* lines 76-80; int(m * 0.1) is m \div 10 for the integers m of a rectangle.
\* The width and the height are cut at the image from the new x and y.
padded_region(width, height, r) ==
  LET padding == Min(r.w, r.h) \div PaddingDivisor
      x == Max(0, r.x - padding)
      y == Max(0, r.y - padding)
      w == Min(width - x, r.w + 2 * padding)
      h == Min(height - y, r.h + 2 * padding)
  IN  [x |-> x, y |-> y, w |-> w, h |-> h]

InitPad ==
  /\ gallery = <<>>
  /\ nextId = 1
  /\ last = NoCall
  /\ cmp = NoCmp
  /\ loc = Idle /\ enc = Idle /\ casc = Idle /\ scan = Idle
  /\ enr = Idle /\ res = Idle /\ fin = Idle /\ vid = Idle
  /\ \E width \in ImageSides, height \in ImageSides,
        x \in RectOrigins, y \in RectOrigins, w \in RectSides, h \in RectSides :
          /\ x + w <= width
          /\ y + h <= height
          /\ pad = [called |-> FALSE, width |-> width, height |-> height,
                    rect |-> [x |-> x, y |-> y, w |-> w, h |-> h], region |-> NoRect]

PadRegion ==
  /\ ~pad.called
  /\ pad' = [pad EXCEPT !.called = TRUE,
                        !.region = padded_region(pad.width, pad.height, pad.rect)]
  /\ UNCHANGED << face, enr, res, fin, vid >>

NextPad == PadRegion

SpecPad == InitPad /\ [][NextPad]_vars

\* ------------------------------ register_new_person calls beside each other
\* Each call is taken in two steps: the encoding and the duplicate check,
\* which read the table, and the INSERT with the photo.  Nothing in the code
\* (no transaction, no lock, no unique constraint on face_encoding) keeps
\* another call from running between the two.
Calls == 1..MaxCalls

EnrollImages ==
  { FaceImage(<<0, 0, 0, 0>>), FaceImage(<<10, 0, 0, 0>>), FaceImage(<<160, 0, 0, 0>>),
    NoFaceImage }

InitEnroll ==
  /\ gallery = <<>>
  /\ nextId = 1
  /\ last = NoCall
  /\ cmp = NoCmp
  /\ loc = Idle /\ enc = Idle /\ casc = Idle /\ scan = Idle
  /\ pad = Idle /\ res = Idle /\ fin = Idle /\ vid = Idle
  /\ enr = [pc            |-> [c \in Calls |-> "call"],
             face_encoding |-> [c \in Calls |-> <<>>],
             is_authorized |-> [c \in Calls |-> FALSE],
             result        |-> [c \in Calls |-> NoCall]]

\* lines 342-374: encode_face, the query and the duplicate loop
EnrollCheck(c, image, is_authorized) ==
  /\ enr.pc[c] = "call"
  /\ \E face_encoding \in { encode_face(image) } :
       IF face_encoding = <<>>
       THEN enr' = [enr EXCEPT !.pc[c] = "done",
                              !.result[c] = [success |-> FALSE, error |-> "no_face"]]
       ELSE \E d \in { duplicate_check(gallery, face_encoding) } :
              IF d.dup # 0
              THEN enr' = [enr EXCEPT !.pc[c] = "done",
                                     !.result[c] = [success |-> FALSE, error |-> "duplicate",
                                                    confidence |-> d.confidence]]
              ELSE enr' = [enr EXCEPT !.pc[c] = "create",
                                     !.face_encoding[c] = face_encoding,
                                     !.is_authorized[c] = is_authorized]
  /\ UNCHANGED << gallery, nextId, last, cmp, loc, enc, casc, scan,
                  pad, res, fin, vid >>

\* lines 376-397: PersonProfile.objects.create and photo.save
EnrollCreate(c, photo_ok) ==
  /\ enr.pc[c] = "create"
  /\ \E r \in { create_profile(gallery, nextId, enr.face_encoding[c],
                                 enr.is_authorized[c], photo_ok) } :
       /\ gallery' = r.gallery
       /\ enr' = [enr EXCEPT !.pc[c] = "done", !.result[c] = r.result]
  /\ nextId' = nextId + 1
  /\ UNCHANGED << last, cmp, loc, enc, casc, scan, pad, res, fin, vid >>

NextEnroll ==
  \/ \E c \in Calls, image \in EnrollImages, is_authorized \in BOOLEAN :
        EnrollCheck(c, image, is_authorized)
  \/ \E c \in Calls, photo_ok \in BOOLEAN : EnrollCreate(c, photo_ok)

SpecEnroll == InitEnroll /\ [][NextEnroll]_vars

\* ------------------------------------------- reservations of common areas
\* areas_comunes: the table reservas_area and the requests the two gunicorn
\* workers are serving.  A request that reads the table and then saves is
\* taken in two steps, the read with its checks and the save; the views and
\* serializers use no transaction and no row lock.
Workers == 1..2

\* AreaComun rows: their estado; none of the reservation operations writes it.
AreasComunes == << "disponible", "mantenimiento" >>

Times == 0..2

\* the filter of puede_reservar: fecha_inicio__lt=fecha_fin, fecha_fin__gt=fecha_inicio
overlaps(reserva, fecha_inicio, fecha_fin) ==
  reserva.fecha_inicio < fecha_fin /\ reserva.fecha_fin > fecha_inicio

\* AreaComun.puede_reservar on the rows of the table
puede_reservar(rows, area, fecha_inicio, fecha_fin) ==
  /\ AreasComunes[area] = "disponible"
  /\ ~ \E i \in 1..Len(rows) :
         /\ rows[i].area = area
         /\ rows[i].estado = "confirmada"
         /\ overlaps(rows[i], fecha_inicio, fecha_fin)

\* ReservaAreaCreateSerializer.validate; every time offered is in the future
validate(rows, attrs) ==
  /\ attrs.fecha_fin > attrs.fecha_inicio
  /\ puede_reservar(rows, attrs.area, attrs.fecha_inicio, attrs.fecha_fin)

\* ReservaArea.puede_cancelar
puede_cancelar(reserva) == reserva.estado \in { "pendiente", "confirmada" }

IdleRequest == [pc |-> "idle"]

InitReserve ==
  /\ gallery = <<>>
  /\ nextId = 1
  /\ last = NoCall
  /\ cmp = NoCmp
  /\ loc = Idle /\ enc = Idle /\ casc = Idle /\ scan = Idle
  /\ pad = Idle /\ enr = Idle /\ fin = Idle /\ vid = Idle
  /\ res = [rows |-> <<>>, req |-> [w \in Workers |-> IdleRequest]]

\* POST /reservas/: is_valid() of the create serializer.  'estado' is one of
\* its writable fields.  A rejected request (HTTP 400) changes nothing.
CreateValidate(w, attrs) ==
  /\ res.req[w] = IdleRequest
  /\ Len(res.rows) < MaxReservas
  /\ IF validate(res.rows, attrs)
     THEN res' = [res EXCEPT !.req[w] = [pc |-> "create", reserva |-> attrs]]
     ELSE UNCHANGED res
  /\ UNCHANGED << face, pad, enr, fin, vid >>

\* perform_create: serializer.save() inserts the row
CreateSave(w) ==
  /\ res.req[w].pc = "create"
  /\ res' = [res EXCEPT !.rows = Append(res.rows, res.req[w].reserva),
                        !.req[w] = IdleRequest]
  /\ UNCHANGED << face, pad, enr, fin, vid >>

\* confirmar, lines 162-175: get_object and the two checks
ConfirmarCheck(w, pk) ==
  /\ res.req[w] = IdleRequest
  /\ pk \in 1..Len(res.rows)
  /\ LET reserva == res.rows[pk]
     IN  IF /\ reserva.estado = "pendiente"
            /\ puede_reservar(res.rows, reserva.area, reserva.fecha_inicio, reserva.fecha_fin)
         THEN res' = [res EXCEPT !.req[w] = [pc |-> "confirmar", pk |-> pk, reserva |-> reserva]]
         ELSE UNCHANGED res
  /\ UNCHANGED << face, pad, enr, fin, vid >>

\* confirmar, lines 177-178: save() writes every field of the loaded object
ConfirmarSave(w) ==
  /\ res.req[w].pc = "confirmar"
  /\ res' = [res EXCEPT !.rows[res.req[w].pk] =
                            [res.req[w].reserva EXCEPT !.estado = "confirmada"],
                        !.req[w] = IdleRequest]
  /\ UNCHANGED << face, pad, enr, fin, vid >>

\* cancelar, lines 190-196
CancelarCheck(w, pk) ==
  /\ res.req[w] = IdleRequest
  /\ pk \in 1..Len(res.rows)
  /\ IF puede_cancelar(res.rows[pk])
     THEN res' = [res EXCEPT !.req[w] = [pc |-> "cancelar", pk |-> pk, reserva |-> res.rows[pk]]]
     ELSE UNCHANGED res
  /\ UNCHANGED << face, pad, enr, fin, vid >>

\* cancelar, lines 198-199
CancelarSave(w) ==
  /\ res.req[w].pc = "cancelar"
  /\ res' = [res EXCEPT !.rows[res.req[w].pk] =
                            [res.req[w].reserva EXCEPT !.estado = "cancelada"],
                        !.req[w] = IdleRequest]
  /\ UNCHANGED << face, pad, enr, fin, vid >>

NextReserve ==
  \/ \E w \in Workers, area \in 1..Len(AreasComunes), fecha_inicio \in Times,
        fecha_fin \in Times, estado \in { "pendiente", "confirmada" } :
        CreateValidate(w, [area |-> area, fecha_inicio |-> fecha_inicio,
                           fecha_fin |-> fecha_fin, estado |-> estado])
  \/ \E w \in Workers : CreateSave(w)
  \/ \E w \in Workers, pk \in 1..MaxReservas : ConfirmarCheck(w, pk)
  \/ \E w \in Workers : ConfirmarSave(w)
  \/ \E w \in Workers, pk \in 1..MaxReservas : CancelarCheck(w, pk)
  \/ \E w \in Workers : CancelarSave(w)

SpecReserve == InitReserve /\ [][NextReserve]_vars

\* ------------------------------------------------------- fines and payments
\* finances: one Infraccion, the Cargo rows, the clock, and the requests the
\* two gunicorn workers are serving.  Amounts are in centavos (DecimalField
\* with 2 decimal places), dates in 15-day periods.  Each MultasService
\* method reads its row before its checks and writes afterwards; only the
\* writes are inside transaction.atomic(), and no read uses select_for_update.
MontoBase       == 10000   \* TipoInfraccion.monto_base, 100.00
TasaInteresMora == 2       \* Cargo.tasa_interes_mora default, 2.00 % a month
DiasParaPago    == 15      \* TipoInfraccion.dias_para_pago default; the clock counts
                           \* periods of this many days

\* request values: monto_personalizado (0: not given) and monto_pago
MontosPersonalizados == { 0, 5000 }
Pagos == { 0, 5000, 10000, 10100 }

\* round(x, 2) on a Decimal: to the nearest centavo, ties to the even one
RoundHalfEven(n, d) ==
  LET q == n \div d
      r == n % d
  IN  IF 2 * r < d THEN q
      ELSE IF 2 * r > d THEN q + 1
      ELSE IF q % 2 = 0 THEN q ELSE q + 1

saldo_pendiente(cargo) == cargo.monto - cargo.monto_pagado

esta_vencido(cargo, hoy) ==
  hoy > cargo.fecha_vencimiento /\ cargo.estado # "pagado"

dias_vencido(cargo, hoy) ==
  IF esta_vencido(cargo, hoy) THEN (hoy - cargo.fecha_vencimiento) * DiasParaPago ELSE 0

\* saldo * (tasa / 100) * (dias / 30), rounded; a saldo below zero earns a
\* negative interest of the same size
interes_mora_calculado(cargo, hoy) ==
  IF ~esta_vencido(cargo, hoy) \/ cargo.estado = "pagado" THEN 0
  ELSE IF dias_vencido(cargo, hoy) <= 0 THEN 0
  ELSE LET n == saldo_pendiente(cargo) * TasaInteresMora * dias_vencido(cargo, hoy)
       IN  IF n >= 0 THEN RoundHalfEven(n, 3000) ELSE 0 - RoundHalfEven(0 - n, 3000)

monto_total_con_intereses(cargo, hoy) ==
  saldo_pendiente(cargo) + interes_mora_calculado(cargo, hoy)

\* Cargo.aplicar_pago on a loaded cargo: ok is FALSE where it raises ValueError
aplicar_pago(cargo, monto_pago, hoy) ==
  IF monto_pago <= 0 \/ monto_pago > monto_total_con_intereses(cargo, hoy)
  THEN [ok |-> FALSE, cargo |-> cargo]
  ELSE LET pagado == cargo.monto_pagado + monto_pago
       IN  [ok    |-> TRUE,
            cargo |-> [cargo EXCEPT !.monto_pagado = pagado,
                                    !.estado = IF pagado >= cargo.monto
                                               THEN "pagado" ELSE "parcialmente_pagado"]]

\* Cargo.generar_cargo_interes_mora: the rows it creates (none without interest)
generar_cargo_interes_mora(cargo, hoy) ==
  IF interes_mora_calculado(cargo, hoy) > 0
  THEN << [tipo_cargo |-> "interes_mora", monto |-> interes_mora_calculado(cargo, hoy),
           monto_pagado |-> 0, estado |-> "pendiente",
           fecha_vencimiento |-> cargo.fecha_vencimiento + (30 \div DiasParaPago),
           infraccion |-> FALSE] >>
  ELSE <<>>

\* Infraccion.puede_aplicar_multa; monto_multa 0 stands for None as well
puede_aplicar_multa(infraccion) ==
  infraccion.estado = "confirmada" /\ infraccion.monto_multa = 0

InitMultas ==
  /\ gallery = <<>>
  /\ nextId = 1
  /\ last = NoCall
  /\ cmp = NoCmp
  /\ loc = Idle /\ enc = Idle /\ casc = Idle /\ scan = Idle
  /\ pad = Idle /\ enr = Idle /\ res = Idle /\ vid = Idle
  /\ \E estado \in { "registrada", "en_revision" } :
       fin = [infraccion |-> [estado |-> estado, monto_multa |-> 0, fecha_limite_pago |-> 0],
              cargos     |-> <<>>,
              hoy        |-> 0,
              req        |-> [w \in Workers |-> IdleRequest]]

\* the clock moves on by 15 days
Tick ==
  /\ fin.hoy < MaxQuincenas
  /\ fin' = [fin EXCEPT !.hoy = fin.hoy + 1]
  /\ UNCHANGED << face, pad, enr, res, vid >>

\* confirmar_infraccion, lines 62-68
ConfirmarInfraccionGet(w) ==
  /\ fin.req[w] = IdleRequest
  /\ IF fin.infraccion.estado = "registrada"
     THEN fin' = [fin EXCEPT !.req[w] = [pc |-> "confirmar", infraccion |-> fin.infraccion]]
     ELSE UNCHANGED fin
  /\ UNCHANGED << face, pad, enr, res, vid >>

\* confirmar_infraccion, lines 70-74: save() writes every field of the loaded object
ConfirmarInfraccionSave(w) ==
  /\ fin.req[w].pc = "confirmar"
  /\ fin' = [fin EXCEPT !.infraccion = [fin.req[w].infraccion EXCEPT !.estado = "confirmada"],
                        !.req[w] = IdleRequest]
  /\ UNCHANGED << face, pad, enr, res, vid >>

\* rechazar_infraccion, lines 82-88
RechazarInfraccionGet(w) ==
  /\ fin.req[w] = IdleRequest
  /\ IF fin.infraccion.estado \in { "registrada", "en_revision" }
     THEN fin' = [fin EXCEPT !.req[w] = [pc |-> "rechazar", infraccion |-> fin.infraccion]]
     ELSE UNCHANGED fin
  /\ UNCHANGED << face, pad, enr, res, vid >>

\* rechazar_infraccion, lines 90-92
RechazarInfraccionSave(w) ==
  /\ fin.req[w].pc = "rechazar"
  /\ fin' = [fin EXCEPT !.infraccion = [fin.req[w].infraccion EXCEPT !.estado = "rechazada"],
                        !.req[w] = IdleRequest]
  /\ UNCHANGED << face, pad, enr, res, vid >>

\* aplicar_multa, lines 100-118: the read, the two checks and the amount
AplicarMultaGet(w, monto_personalizado) ==
  /\ fin.req[w] = IdleRequest
  /\ IF puede_aplicar_multa(fin.infraccion)
     THEN fin' = [fin EXCEPT !.req[w] =
                    [pc |-> "aplicar", infraccion |-> fin.infraccion,
                     monto_multa |-> IF monto_personalizado # 0
                                     THEN monto_personalizado ELSE MontoBase]]
     ELSE UNCHANGED fin
  /\ UNCHANGED << face, pad, enr, res, vid >>

\* aplicar_multa, lines 120-137: the transaction that saves the infraccion
\* and creates the cargo
AplicarMultaWrite(w) ==
  /\ fin.req[w].pc = "aplicar"
  /\ Len(fin.cargos) < MaxCargos
  /\ LET fecha_limite_pago == fin.hoy + 1
         monto_multa == fin.req[w].monto_multa
     IN  fin' = [fin EXCEPT
           !.infraccion = [fin.req[w].infraccion EXCEPT
                             !.monto_multa = monto_multa,
                             !.fecha_limite_pago = fecha_limite_pago,
                             !.estado = "multa_aplicada"],
           !.cargos = Append(fin.cargos,
                        [tipo_cargo |-> "multa", monto |-> monto_multa, monto_pagado |-> 0,
                         estado |-> "pendiente", fecha_vencimiento |-> fecha_limite_pago,
                         infraccion |-> TRUE]),
           !.req[w] = IdleRequest]
  /\ UNCHANGED << face, pad, enr, res, vid >>

\* procesar_pago_multa, lines 146-157: the read and the checks before the
\* transaction
ProcesarPagoGet(w, cargo_id, monto_pago) ==
  /\ fin.req[w] = IdleRequest
  /\ IF /\ cargo_id \in 1..Len(fin.cargos)
        /\ fin.cargos[cargo_id].tipo_cargo = "multa"
        /\ fin.cargos[cargo_id].estado # "pagado"
        /\ monto_pago <= monto_total_con_intereses(fin.cargos[cargo_id], fin.hoy)
     THEN fin' = [fin EXCEPT !.req[w] = [pc |-> "pago", cargo_id |-> cargo_id,
                                         cargo |-> fin.cargos[cargo_id],
                                         monto_pago |-> monto_pago]]
     ELSE UNCHANGED fin
  /\ UNCHANGED << face, pad, enr, res, vid >>

\* procesar_pago_multa, lines 159-171: the transaction.  aplicar_pago works
\* on the cargo object loaded before; a ValueError it raises rolls back.
\* cargo.infraccion is fetched when it is first used, inside the transaction.
ProcesarPagoWrite(w) ==
  /\ fin.req[w].pc = "pago"
  /\ \E r \in { aplicar_pago(fin.req[w].cargo, fin.req[w].monto_pago, fin.hoy) } :
       IF ~r.ok
       THEN fin' = [fin EXCEPT !.req[w] = IdleRequest]
       ELSE \E interes \in { generar_cargo_interes_mora(r.cargo, fin.hoy) } :
              /\ Len(fin.cargos) + Len(interes) <= MaxCargos
              /\ fin' = [fin EXCEPT
                    !.cargos = [fin.cargos EXCEPT ![fin.req[w].cargo_id] = r.cargo] \o interes,
                    !.infraccion.estado = IF r.cargo.estado = "pagado" /\ r.cargo.infraccion
                                          THEN "pagada" ELSE @,
                    !.req[w] = IdleRequest]
  /\ UNCHANGED << face, pad, enr, res, vid >>

NextMultas ==
  \/ Tick
  \/ \E w \in Workers : ConfirmarInfraccionGet(w)
  \/ \E w \in Workers : ConfirmarInfraccionSave(w)
  \/ \E w \in Workers : RechazarInfraccionGet(w)
  \/ \E w \in Workers : RechazarInfraccionSave(w)
  \/ \E w \in Workers, monto_personalizado \in MontosPersonalizados :
        AplicarMultaGet(w, monto_personalizado)
  \/ \E w \in Workers : AplicarMultaWrite(w)
  \/ \E w \in Workers, cargo_id \in 1..MaxCargos, monto_pago \in Pagos :
        ProcesarPagoGet(w, cargo_id, monto_pago)
  \/ \E w \in Workers : ProcesarPagoWrite(w)

SpecMultas == InitMultas /\ [][NextMultas]_vars

\* ---------------------------------------------------------- video analysis
\* One AnalisisVideo row, the number of DeteccionActividad rows linked to it,
\* the Rekognition job, and the status checks the two gunicorn workers are
\* serving.  A status check works on the object its view loaded; each save()
\* writes every field of that object.  No transaction, no row lock.
NoAnalisis == [estado |-> "NONE", job_id |-> 0, actividades_detectadas |-> 0]

NoJob == [status |-> "NONE", detecciones |-> 0]

InitVideo ==
  /\ gallery = <<>>
  /\ nextId = 1
  /\ last = NoCall
  /\ cmp = NoCmp
  /\ loc = Idle /\ enc = Idle /\ casc = Idle /\ scan = Idle
  /\ pad = Idle /\ enr = Idle /\ res = Idle /\ fin = Idle
  /\ vid = [analisis    |-> NoAnalisis,
             detecciones |-> 0,
             job         |-> NoJob,
             req         |-> [w \in Workers |-> IdleRequest]]

\* iniciar_analisis, lines 51-57: the row is created as PENDIENTE
IniciarCreate ==
  /\ vid.analisis = NoAnalisis
  /\ vid' = [vid EXCEPT !.analisis.estado = "PENDIENTE"]
  /\ UNCHANGED << face, pad, enr, res, fin >>

\* iniciar_analisis, lines 64-89: start_label_detection returns a job id, or
\* raises
IniciarStart(started) ==
  /\ vid.analisis.estado = "PENDIENTE"
  /\ vid.job = NoJob
  /\ IF started
     THEN vid' = [vid EXCEPT !.analisis.job_id = 1,
                            !.analisis.estado = "PROCESANDO",
                            !.job.status = "IN_PROGRESS"]
     ELSE vid' = [vid EXCEPT !.analisis.estado = "ERROR",
                            !.job.status = "REFUSED"]
  /\ UNCHANGED << face, pad, enr, res, fin >>

\* Rekognition finishes the job: the labels of a SUCCEEDED job make
\* `detecciones` groups whose mean confidence passes min_confidence
JobFinish(status, detecciones) ==
  /\ vid.job.status = "IN_PROGRESS"
  /\ vid' = [vid EXCEPT !.job = [status |-> status,
                                 detecciones |-> IF status = "SUCCEEDED" THEN detecciones ELSE 0]]
  /\ UNCHANGED << face, pad, enr, res, fin >>

\* verificar_estado (view): AnalisisVideo.objects.get(pk=pk)
VerificarGet(w) ==
  /\ vid.req[w] = IdleRequest
  /\ vid.analisis # NoAnalisis
  /\ vid' = [vid EXCEPT !.req[w] = [pc |-> "loaded", analisis |-> vid.analisis]]
  /\ UNCHANGED << face, pad, enr, res, fin >>

\* verificar_estado_analisis, lines 99-127 without the SUCCEEDED branch:
\* the guard, get_label_detection (answered: whether it returns) and the
\* FAILED, still-running and exception outcomes
VerificarPoll(w, answered) ==
  /\ vid.req[w].pc = "loaded"
  /\ LET analisis == vid.req[w].analisis
     IN  IF analisis.job_id = 0 \/ analisis.estado # "PROCESANDO"
         THEN vid' = [vid EXCEPT !.req[w] = IdleRequest]
         ELSE IF ~answered \/ vid.job.status = "FAILED"
         THEN vid' = [vid EXCEPT !.analisis = [analisis EXCEPT !.estado = "ERROR"],
                                !.req[w] = IdleRequest]
         ELSE IF vid.job.status = "SUCCEEDED"
         THEN vid' = [vid EXCEPT !.req[w] = [pc |-> "procesar", analisis |-> analisis,
                                             detecciones |-> vid.job.detecciones]]
         ELSE vid' = [vid EXCEPT !.req[w] = IdleRequest]
  /\ UNCHANGED << face, pad, enr, res, fin >>

\* _procesar_resultados, lines 129-219: one DeteccionActividad row for each
\* passing group, then the statistics and analisis.save().  created: the rows
\* inserted before an exception, all of them if none is raised; an
\* exception is caught at line 123, which saves the analisis as ERROR.
VerificarProcesar(w, created) ==
  /\ vid.req[w].pc = "procesar"
  /\ created \in 0..vid.req[w].detecciones
  /\ vid.detecciones + created <= MaxFilas
  /\ LET analisis == vid.req[w].analisis
         all      == vid.req[w].detecciones
     IN  IF created = all
         THEN LET saved == [analisis EXCEPT !.actividades_detectadas = all]
              IN  vid' = [vid EXCEPT !.detecciones = vid.detecciones + created,
                                     !.analisis = saved,
                                     !.req[w] = [pc |-> "completar", analisis |-> saved]]
         ELSE vid' = [vid EXCEPT !.detecciones = vid.detecciones + created,
                                 !.analisis = [analisis EXCEPT !.estado = "ERROR"],
                                 !.req[w] = IdleRequest]
  /\ UNCHANGED << face, pad, enr, res, fin >>

\* verificar_estado_analisis, lines 109-112
VerificarCompletar(w) ==
  /\ vid.req[w].pc = "completar"
  /\ vid' = [vid EXCEPT !.analisis = [vid.req[w].analisis EXCEPT !.estado = "COMPLETADO"],
                        !.req[w] = IdleRequest]
  /\ UNCHANGED << face, pad, enr, res, fin >>

NextVideo ==
  \/ IniciarCreate
  \/ \E started \in BOOLEAN : IniciarStart(started)
  \/ \E status \in { "SUCCEEDED", "FAILED" }, detecciones \in 0..MaxDetecciones :
        JobFinish(status, detecciones)
  \/ \E w \in Workers : VerificarGet(w)
  \/ \E w \in Workers, answered \in BOOLEAN : VerificarPoll(w, answered)
  \/ \E w \in Workers, created \in 0..MaxDetecciones : VerificarProcesar(w, created)
  \/ \E w \in Workers : VerificarCompletar(w)

SpecVideo == InitVideo /\ [][NextVideo]_vars

\* =================================================================== claims
\* What the last identification worked on.  gallery is what it read: the
\* call changes no row and every other call overwrites last.
Query      == encode_face(last.image)
Identified == last.op = "identify" /\ Query # <<>>

\* authorized rows with a decodable descriptor, in iteration order
Candidates ==
  SelectSeq(gallery, LAMBDA p : p.is_authorized /\ p.face_encoding.kind = "json")

\* normalized distance of a row's descriptor from a descriptor q
DistanceFrom(p, q) ==
  IF Len(p.face_encoding.value) = Len(q)
  THEN Norm(p.face_encoding.value, q) \div Sqrt(Len(q))
  ELSE Inf

Accepted(p, q, threshold) == DistanceFrom(p, q) <= threshold

Matched == last.result.person_profile

Granted == "access_granted" \in DOMAIN last.result /\ last.result.access_granted

\* C1.  Authorization gating: an identification never matches, and never
\* grants access for, a profile whose is_authorized is false when the gallery
\* is read, whatever enrollments and toggles came before and however close
\* the query is to that profile's descriptor.
C1_AuthorizationGating ==
  last.op = "identify" =>
    /\ \A i \in 1..Len(gallery) :
         ~gallery[i].is_authorized => Matched # gallery[i].id
    /\ Granted =>
         \E i \in 1..Len(gallery) :
           gallery[i].id = Matched /\ gallery[i].is_authorized

\* an unauthorized row at distance 0 from the query, reached through a toggle
\* or an unauthorized enrollment, and the identification denied
C1_Witness ==
  /\ Identified
  /\ \E i \in 1..Len(gallery) :
       /\ ~gallery[i].is_authorized
       /\ gallery[i].face_encoding = JsonDumps(Query)
  /\ \E i \in 1..Len(gallery) : gallery[i].is_authorized
  /\ ~Granted

C3_Scenario ==
  /\ Identified
  /\ Len(gallery) = 1
  /\ Len(Candidates) = 1
  /\ DistanceFrom(gallery[1], Query) = 5

NearDuplicate(p, q) ==
  /\ p.face_encoding.kind = "json"
  /\ DistanceFrom(p, q) <= DuplicateTolerance
  /\ One - DistanceFrom(p, q) > DuplicateConfidence

\* a step of RegisterNewPerson: no other action leaves op = "register"
Registers(image) == last'.op = "register" /\ last'.image = image

RejectedAsDuplicate ==
  /\ ~last'.result.success
  /\ last'.result.error = "duplicate"
  /\ Len(gallery') = Len(gallery)
  /\ gallery' = gallery

\* C5.  Duplicate rejection: a registration with an image whose descriptor is
\* already stored (the image of an earlier successful registration, distance
\* 0) fails as a duplicate and adds no profile.
C5_DuplicateRejection ==
  [][ \A image \in Images :
        ( /\ Registers(image)
          /\ encode_face(image) # <<>>
          /\ \E i \in 1..Len(gallery) :
               gallery[i].face_encoding = JsonDumps(encode_face(image)) )
        => RejectedAsDuplicate ]_vars

\* the second of two registrations of one image: the first succeeded and its
\* row is there, the second was rejected at confidence 100 %
C5_Witness ==
  /\ last.op = "register"
  /\ ~last.result.success /\ last.result.error = "duplicate"
  /\ last.result.confidence = 100
  /\ \E i \in 1..Len(gallery) :
       gallery[i].face_encoding = JsonDumps(encode_face(last.image))

\* C6.  The duplicate check covers every enrolled profile: a new face within
\* the duplicate threshold of an unauthorized profile is rejected as it is
\* for an authorized one.
C6_DuplicateAgainstAll ==
  [][ \A image \in Images :
        ( /\ Registers(image)
          /\ encode_face(image) # <<>>
          /\ \E i \in 1..Len(gallery) :
               NearDuplicate(gallery[i], encode_face(image)) )
        => RejectedAsDuplicate ]_vars

\* rejected although the only rows near the new face are unauthorized, one
\* of them at a distance other than 0
C6_Witness ==
  /\ last.op = "register"
  /\ ~last.result.success /\ last.result.error = "duplicate"
  /\ \E i \in 1..Len(gallery) :
       /\ NearDuplicate(gallery[i], encode_face(last.image))
       /\ DistanceFrom(gallery[i], encode_face(last.image)) > 0
  /\ \A i \in 1..Len(gallery) :
       NearDuplicate(gallery[i], encode_face(last.image)) => ~gallery[i].is_authorized

\* indices marked as matches
MatchSet(matches) == { i \in 1..Len(matches) : matches[i] }

\* C7.  Threshold monotonicity of compare_faces: for fixed known descriptors
\* and query, the indices matched at a tolerance are matched at every larger
\* tolerance.
C7_ThresholdMonotone ==
  cmp.called =>
    \A t \in Tolerances :
      LET other == MatchSet(compare_faces(cmp.known, cmp.unknown, t).matches)
      IN  /\ cmp.tolerance < t => MatchSet(cmp.matches) \subseteq other
          /\ t < cmp.tolerance => other \subseteq MatchSet(cmp.matches)

\* a call whose match set is non-empty and strictly grows at a larger tolerance
C7_Witness ==
  /\ cmp.called
  /\ MatchSet(cmp.matches) # {}
  /\ \E t \in Tolerances :
       /\ cmp.tolerance < t
       /\ MatchSet(cmp.matches) # MatchSet(compare_faces(cmp.known, cmp.unknown, t).matches)

\* the distances compare_faces produced for the last identification
IdentifyDistances ==
  compare_faces([i \in 1..Len(Candidates) |-> Candidates[i].face_encoding.value],
                Query, DefaultTolerance).distances

\* C8.  Bounds: every distance compare_faces produces is >= 0, every
\* confidence computed from one, and the confidence an identification
\* returns, is within [0, 100], also for distances above 1 and infinite ones.
C8_Bounds ==
  last.op = "identify" =>
    /\ last.result.confidence >= 0 /\ last.result.confidence <= 100
    /\ Confidence(Inf) >= 0 /\ Confidence(Inf) <= 100
    /\ Query # <<>> =>
         \A i \in 1..Len(IdentifyDistances) :
           /\ IdentifyDistances[i] >= 0
           /\ Confidence(IdentifyDistances[i]) >= 0
           /\ Confidence(IdentifyDistances[i]) <= 100

\* an identification over a candidate at a distance above 1 and a candidate
\* below it (every stored descriptor has the dimension of the query, so the
\* infinite distance arises only in direct compare_faces calls)
C8_Witness ==
  /\ Identified
  /\ \E i \in 1..Len(IdentifyDistances) :
       IdentifyDistances[i] > One /\ IdentifyDistances[i] < Inf
  /\ \E i \in 1..Len(IdentifyDistances) : IdentifyDistances[i] < One

\* C9.  Tie-break: among accepted candidates of identical confidence the one
\* that comes first in gallery iteration order is returned.
C9_TieBreak ==
  (Identified /\ Matched # NoProfile) =>
    \A i, j \in 1..Len(Candidates) :
      ( /\ Candidates[j].id = Matched
        /\ i < j
        /\ Accepted(Candidates[i], Query, DefaultTolerance) )
      => One - DistanceFrom(Candidates[i], Query) # One - DistanceFrom(Candidates[j], Query)

\* two accepted candidates of equal positive confidence, the first returned
C9_Witness ==
  /\ Identified
  /\ Len(Candidates) >= 2
  /\ DistanceFrom(Candidates[1], Query) = DistanceFrom(Candidates[2], Query)
  /\ DistanceFrom(Candidates[1], Query) < One
  /\ Matched = Candidates[1].id

\* C10.  A dimension mismatch does not abort the scan: the mismatching entry
\* is recorded as (no match, infinite distance) and both returned lists have
\* one entry per known descriptor, in order.
C10_MismatchContinues ==
  cmp.called =>
    /\ Len(cmp.matches) = Len(cmp.known)
    /\ Len(cmp.distances) = Len(cmp.known)
    /\ \A i \in 1..Len(cmp.known) :
         IF Len(cmp.known[i]) # Len(cmp.unknown)
         THEN cmp.distances[i] = Inf /\ ~cmp.matches[i]
         ELSE /\ cmp.distances[i] = Norm(cmp.known[i], cmp.unknown) \div Sqrt(Len(cmp.unknown))
              /\ cmp.matches[i] <=> cmp.distances[i] <= cmp.tolerance

\* a mismatching entry first and a matching entry after it
C10_Witness ==
  /\ cmp.called
  /\ Len(cmp.known) >= 2
  /\ Len(cmp.known[1]) # Len(cmp.unknown)
  /\ cmp.distances[1] = Inf
  /\ \E i \in 2..Len(cmp.known) : cmp.matches[i]

\* C11.  No-face handling: for a readable image in which detection finds no
\* face, encode_face yields no descriptor (None, not a zero vector), and an
\* identification or registration with it fails with the no-face error,
\* hands nothing to compare_faces and leaves the stored profiles as they were.
C11_NoFaceHandling ==
  [][ (last'.op \in {"identify", "register"} /\ last'.image = NoFaceImage) =>
        /\ encode_face(NoFaceImage) = <<>>
        /\ ~last'.result.success
        /\ last'.result.error = "no_face"
        /\ last'.compared = 0
        /\ gallery' = gallery ]_vars

\* a registration with a faceless image over a gallery holding an authorized
\* profile with a descriptor, refused without a comparison
C11_Witness ==
  /\ last.op = "register"
  /\ last.image = NoFaceImage
  /\ ~last.result.success /\ last.result.error = "no_face"
  /\ last.compared = 0
  /\ Len(Candidates) > 0

\* the message of a returned dict, "none" when the key is absent
Message(r) == DictGet(r, "message", "none")

\* C13.  GalleryEmpty is a distinct outcome: when no authorized profile with
\* a descriptor is there to compare against, the identification (and the
\* access request built on it) answers with a message other than the one of
\* the ordinary no-match outcome, and the no-match outcome keeps its own.
C13_GalleryEmptyDistinct ==
  ( /\ last.op \in {"identify", "process"}
    /\ Query # <<>>
    /\ last.result.success ) =>
    /\ Len(Candidates) = 0 =>
         /\ last.result.person_profile = NoProfile
         /\ Message(last.result) # Message(NotRecognized)
         /\ last.op = "identify" => last.result # NotRecognized
    /\ (Len(Candidates) > 0 /\ last.result.person_profile = NoProfile) =>
         Message(last.result) = Message(NotRecognized)

\* an access request over profiles none of which is authorized
C13_Witness ==
  /\ last.op = "process"
  /\ Query # <<>>
  /\ last.result.success
  /\ Len(gallery) > 0
  /\ Len(AuthorizedProfiles(gallery)) = 0
  /\ Message(last.result) = "no_profiles"

\* C14.  An image that cannot be loaded is reported with an outcome other
\* than the one of "no face detected", by identify_person and by
\* register_new_person.
C14_UnreadableDistinct ==
  (last.op \in {"identify", "register"} /\ ~last.image.readable) =>
    /\ encode_face(last.image) # encode_face(NoFaceImage)
    /\ IF last.op = "identify"
       THEN last.result # identify_person(gallery, NoFaceImage)
       ELSE last.result #
              register_new_person(gallery, nextId, NoFaceImage,
                                  last.is_authorized, TRUE).result

\* C15.  Remove is idempotent: removing an id leaves the enrolled ids without
\* it, and removing an id that is not enrolled changes nothing and is
\* answered without an error.
C15_RemoveIdempotent ==
  [][ \A id \in 1..MaxProfiles :
        (last'.op = "destroy" /\ last'.id = id) =>
          /\ Ids' = Ids \ {id}
          /\ id \notin Ids =>
               /\ gallery' = gallery
               /\ last'.result.success
               /\ "error" \notin DOMAIN last'.result ]_vars

\* C16.  Access-log hand-off: an access request whose identification
\* completes creates exactly one FacialAccessLog row, and the row's
\* person_profile, confidence and access_granted are those of the dict the
\* request returns.
C16_AccessLogHandoff ==
  (last.op = "process" /\ identify_person(gallery, last.image).success) =>
    /\ Len(last.created) = 1
    /\ "person_profile" \in DOMAIN last.result
    /\ last.created[1].person_profile = last.result.person_profile
    /\ "confidence" \in DOMAIN last.result
    /\ last.created[1].confidence_score = last.result.confidence
    /\ "access_granted" \in DOMAIN last.result
    /\ last.created[1].access_granted = last.result.access_granted

C17_FixedLength ==
  (enc.called /\ ~enc.returned.none) => Len(enc.returned.values) = 66

\* a descriptor of a non-square region smaller and larger than the patch,
\* with non-zero features, normalised
C17_Witness ==
  /\ enc.called
  /\ enc.rh < PatchSide /\ enc.rw > PatchSide
  /\ enc.returned.divided
  /\ Len(enc.returned.values) = 66

\* the authorized rows with a descriptor in a table, as (id, descriptor) pairs
AuthorizedPairs(g) ==
  LET c == SelectSeq(g, LAMBDA p : p.is_authorized /\ p.face_encoding.kind = "json")
  IN  [i \in 1..Len(c) |-> [id |-> c[i].id, encoding |-> c[i].face_encoding.value]]

\* C18.  Consistent snapshot: whatever writes run beside an identification,
\* the candidates it compares are exactly the authorized profiles of the table
\* at one moment (that of its last query), each distance is paired with the
\* profile whose descriptor produced it, and a returned match is one of these
\* candidates with the confidence of its own descriptor.
C18_ConsistentSnapshot ==
  (scan.pc = "done" /\ encode_face(scan.image) # <<>>) =>
    /\ scan.paired = AuthorizedPairs(scan.snapshot)
    /\ scan.result.success
    /\ scan.result.person_profile # NoProfile =>
         \E i \in 1..Len(scan.paired) :
           /\ scan.paired[i].id = scan.result.person_profile
           /\ scan.result.confidence =
                Confidence(normalized_distance(scan.paired[i].encoding,
                                               encode_face(scan.image)))

\* an identification that matched a profile of its snapshot although the
\* profile was revoked or deleted between the query and the decision
C18_Witness ==
  /\ scan.pc = "done"
  /\ scan.result.success
  /\ scan.result.person_profile # NoProfile
  /\ Len(scan.paired) >= 1
  /\ gallery # scan.snapshot
  /\ \A i \in 1..Len(gallery) :
       gallery[i].id = scan.result.person_profile => ~gallery[i].is_authorized

\* C19.  Detection model lifecycle: whatever the interleaving of the threads'
\* encode_face calls, the cascade classifier is constructed at most once and
\* an assigned _face_cascade is never replaced.
C19_LoadedOnce ==
  casc.constructed <= 1 /\ casc.replaced = 0

\* C20.  Largest-face selection: with one or more detected rectangles,
\* encode_face works on a rectangle whose area is >= that of every other,
\* and among rectangles sharing the largest area on the earliest one in
\* detection order; with none it returns None.
C20_LargestFace ==
  loc.called =>
    IF Len(loc.faces) = 0 THEN ~loc.found
    ELSE /\ loc.found
         /\ \E i \in 1..Len(loc.faces) :
              /\ loc.chosen = loc.faces[i]
              /\ \A j \in 1..Len(loc.faces) : Area(loc.faces[j]) <= Area(loc.faces[i])
              /\ \A j \in 1..(i - 1) : Area(loc.faces[j]) < Area(loc.faces[i])

\* a smaller rectangle first, then two different rectangles sharing the
\* largest area: the earlier of the two is chosen
C20_Witness ==
  /\ loc.called
  /\ Len(loc.faces) = 3
  /\ Area(loc.faces[1]) < Area(loc.faces[2])
  /\ Area(loc.faces[2]) = Area(loc.faces[3])
  /\ loc.faces[2] # loc.faces[3]
  /\ loc.chosen = loc.faces[2]

\* the regional values of the returned descriptor: what follows the
\* histogram and the Hu moments and precedes the edge density and the
\* orientation histogram
RegionalCount == Len(enc.returned.values) - (HistBins + HuCount + 1 + OrientationBins)

\* the corners of the cells of a 4x4 partition of the patch
GridCorners ==
  { << i * (PatchSide \div GridDivisor), j * (PatchSide \div GridDivisor) >> :
      i \in 0..(GridDivisor - 1), j \in 0..(GridDivisor - 1) }

\* C22.  Regional texture statistics: the 100x100 patch is partitioned into a
\* 4x4 grid, the cells contribute a mean and a standard deviation each in a
\* fixed order, and the regional values are capped at 20 (so 20 of the 32
\* values of the 16 cells are kept).
C22_RegionGrid ==
  enc.called =>
    LET cells == region_cells(resized_shape(enc.rh, enc.rw))
    IN  /\ { cells[k] : k \in 1..Len(cells) } = GridCorners
        /\ RegionalCount = Min(2 * Cardinality(GridCorners), MaxRegionValues)
        /\ RegionalCount <= MaxRegionValues

\* C23.  No duplicate enrollment under concurrency: whatever the
\* interleaving of the register_new_person calls, no two profiles they
\* enrolled have descriptors within the duplicate threshold of each other
\* (distance <= 0.6 and confidence > 70), and two calls with the same face do
\* not both succeed.
C23_NoDuplicateEnrollment ==
  /\ \A i, j \in 1..Len(gallery) :
       i # j => ~NearDuplicate(gallery[i], gallery[j].face_encoding.value)
  /\ \A c, d \in Calls :
       ( /\ c # d
         /\ enr.pc[c] = "done" /\ enr.pc[d] = "done"
         /\ enr.result[c].success /\ enr.result[d].success )
       => enr.face_encoding[c] # enr.face_encoding[d]

\* C27.  No overlapping confirmed reservations: for every common area, after
\* any sequence or interleaving of create, confirmar and cancelar, no two
\* reservations in state confirmada of that area have overlapping intervals
\* (fecha_inicio < other.fecha_fin and fecha_fin > other.fecha_inicio).
C27_NoOverlappingConfirmed ==
  \A i, j \in 1..Len(res.rows) :
    ( /\ i # j
      /\ res.rows[i].area = res.rows[j].area
      /\ res.rows[i].estado = "confirmada"
      /\ res.rows[j].estado = "confirmada" )
    => ~ ( /\ res.rows[i].fecha_inicio < res.rows[j].fecha_fin
           /\ res.rows[i].fecha_fin > res.rows[j].fecha_inicio )

\* C28.  Payment bound: after any sequence of successful payments on a charge
\* 0 <= monto_pagado <= monto holds (saldo_pendiente is never negative), also
\* for overdue charges that carry late-payment interest.
C28_PaymentBound ==
  \A i \in 1..Len(fin.cargos) :
    /\ 0 <= fin.cargos[i].monto_pagado
    /\ fin.cargos[i].monto_pagado <= fin.cargos[i].monto

\* the MULTA cargos linked to the infraccion
MultaCargos ==
  { i \in 1..Len(fin.cargos) :
      fin.cargos[i].tipo_cargo = "multa" /\ fin.cargos[i].infraccion }

\* C29.  Fine applied at most once: under any interleaving of
\* confirmar_infraccion, rechazar_infraccion, aplicar_multa and
\* procesar_pago_multa the infraccion has at most one MULTA cargo linked to
\* it, aplicar_multa succeeds only from state confirmada, and an infraccion
\* in state rechazada or pagada never changes state again.
C29_FineAppliedOnce ==
  /\ [](Cardinality(MultaCargos) <= 1)
  /\ [][ /\ MultaCargos' # MultaCargos => fin.infraccion.estado = "confirmada"
         /\ fin.infraccion.estado \in { "rechazada", "pagada" }
              => fin'.infraccion.estado = fin.infraccion.estado ]_vars

\* the state changes of an AnalisisVideo row the lifecycle allows
LifecycleSteps ==
  { << "NONE", "PENDIENTE" >>, << "PENDIENTE", "PROCESANDO" >>, << "PENDIENTE", "ERROR" >>,
    << "PROCESANDO", "COMPLETADO" >>, << "PROCESANDO", "ERROR" >> }

\* C30.  Video-analysis job lifecycle: an AnalisisVideo moves only
\* PENDIENTE -> PROCESANDO -> (COMPLETADO | ERROR) or PENDIENTE -> ERROR; once
\* it is COMPLETADO or ERROR no status check changes its state; and its
\* results are processed at most once, so it never has more
\* DeteccionActividad rows than its Rekognition response has detections,
\* under any interleaving of concurrent status checks.
C30_JobLifecycle ==
  /\ [](vid.detecciones <= vid.job.detecciones)
  /\ [][ \/ vid'.analisis.estado = vid.analisis.estado
         \/ << vid.analisis.estado, vid'.analisis.estado >> \in LifecycleSteps ]_vars

\* the matched row of the last identification and the rows the scan skipped
Skipped(p) == p.is_authorized /\ p.face_encoding.kind # "json"

\* C24.  Index alignment when entries are skipped: when authorized profiles
\* without a decodable face_encoding are skipped, every index of the
\* distances list maps to exactly one loaded profile, the one whose
\* descriptor is at that index, and the profile returned as matched is the
\* one whose stored descriptor produced the winning distance.
C24_IndexAlignment ==
  (Identified /\ \E i \in 1..Len(gallery) : Skipped(gallery[i])) =>
    LET paired == identify_run(gallery, last.image).paired
    IN  /\ paired = AuthorizedPairs(gallery)
        /\ Len(paired) = Len(IdentifyDistances)
        /\ Matched # NoProfile =>
             \E i \in 1..Len(gallery) :
               /\ gallery[i].id = Matched
               /\ gallery[i].face_encoding.kind = "json"
               /\ last.result.confidence = Confidence(DistanceFrom(gallery[i], Query))
               /\ \A j \in 1..Len(Candidates) :
                    Confidence(DistanceFrom(Candidates[j], Query)) <= last.result.confidence

\* a skipped row comes before the matched one in iteration order, and the
\* matched row is not at distance 0 (its confidence is its own)
C24_Witness ==
  /\ Identified
  /\ Matched # NoProfile
  /\ \E i, j \in 1..Len(gallery) :
       /\ i < j
       /\ Skipped(gallery[i])
       /\ gallery[j].id = Matched
       /\ DistanceFrom(gallery[j], Query) > 0

\* C25.  Failed enrollment leaves the gallery unchanged: whenever
\* FacialRecognitionService.register_new_person returns success = false, the
\* PersonProfile rows are those before the call.
C25_FailedEnrollmentNoRow ==
  [][ (last'.op = "register" /\ ~last'.result.success) => gallery' = gallery ]_vars

\* C26.  Cloud-backed enrollment rollback: a call of
\* AWSFacialRecognitionService.register_new_person that returned success =
\* false has left no row behind, and a call that returned success = true has
\* left a row with a face id; no row is without one.
C26_CloudRollback ==
  [][ last'.op = "aws_register" =>
        /\ ~last'.result.success => gallery' = gallery
        /\ last'.result.success =>
             /\ Len(gallery') = Len(gallery) + 1
             /\ gallery'[1].aws_face_id # NoFaceId
        /\ \A i \in 1..Len(gallery') :
             gallery'[i].face_encoding.kind # "json" => gallery'[i].aws_face_id # NoFaceId
    ]_vars

\* the margin the claim speaks of
Margin(r) == Min(r.w, r.h) \div PaddingDivisor

\* C21.  Padding and clamping: the region used for extraction is the detected
\* rectangle grown by int(0.1 * min(w, h)) on all four sides and intersected
\* with the image: it lies within the image, contains the detected rectangle
\* and extends beyond none of its sides by more than the margin.
C21_PaddedRegion ==
  pad.called =>
    LET r == pad.rect
        g == pad.region
        m == Margin(r)
    IN  /\ g.x = Max(0, r.x - m)
        /\ g.y = Max(0, r.y - m)
        /\ g.x + g.w = Min(pad.width, r.x + r.w + m)
        /\ g.y + g.h = Min(pad.height, r.y + r.h + m)
        /\ g.x >= 0 /\ g.y >= 0
        /\ g.x + g.w <= pad.width /\ g.y + g.h <= pad.height
        /\ g.x <= r.x /\ g.y <= r.y
        /\ g.x + g.w >= r.x + r.w /\ g.y + g.h >= r.y + r.h
        /\ r.x - g.x <= m /\ r.y - g.y <= m
        /\ (g.x + g.w) - (r.x + r.w) <= m
        /\ (g.y + g.h) - (r.y + r.h) <= m

\* ------------------------------------------------------------ model sanity
\* every norm and every sqrt(dimension) of the descriptor universe is exact
ExactArithmetic ==
  \A a, b \in Descriptors :
    Len(a) = Len(b) =>
      /\ Norm(a, b) * Norm(a, b) = SumSq(a, b, 1)
      /\ Sqrt(Len(a)) * Sqrt(Len(a)) = Len(a)
      /\ Norm(a, b) % Sqrt(Len(a)) = 0

====
